---- MODULE Spec2Model ----
(***************************************************************************)
(* email-deep-validator: EmailValidator.verify and the SMTP mailbox probe  *)
(* of src/src/lib/index.ts.                                                *)
(*                                                                         *)
(* Text (addresses, host names, SMTP lines) is a sequence of one-character *)
(* strings, so that the regular expressions and String.includes of the     *)
(* source are computed character by character.                             *)
(***************************************************************************)
EXTENDS Naturals, Integers, Sequences, FiniteSets, TLC

(* ------------------------------ bounds -------------------------------- *)

\* longest address handed to verify
MaxAddrLen == 3

\* most MX records the DNS answer holds
MaxRecords == 2

\* most MX records a call of the resolveMxRecords helper is answered with
MaxSortLen == 3

\* the count of acknowledgements received stops here
MaxProgressSeen == 3

(* ---------------------------- characters ------------------------------ *)

UpperSeq ==
  << "A","B","C","D","E","F","G","H","I","J","K","L","M",
     "N","O","P","Q","R","S","T","U","V","W","X","Y","Z" >>

LowerSeq ==
  << "a","b","c","d","e","f","g","h","i","j","k","l","m",
     "n","o","p","q","r","s","t","u","v","w","x","y","z" >>

Digits == { "0","1","2","3","4","5","6","7","8","9" }

Letters == { UpperSeq[i] : i \in 1..26 } \cup { LowerSeq[i] : i \in 1..26 }

\* the i flag of a regular expression: compare letters regardless of case
ToLower(c) ==
  IF \E i \in 1..26 : UpperSeq[i] = c
    THEN LowerSeq[CHOOSE i \in 1..26 : UpperSeq[i] = c]
    ELSE c

LowerCase(s) == [ i \in 1..Len(s) |-> ToLower(s[i]) ]

\* what "." of a regular expression does not match
LineTerminators == { "\n", "\r" }

(* ------------------------------ strings ------------------------------- *)

\* w occurs in s at position i
OccursAt(s, w, i) ==
  /\ i >= 1
  /\ i + Len(w) - 1 <= Len(s)
  /\ \A k \in 1..Len(w) : s[i + k - 1] = w[k]

\* String.prototype.includes / an unanchored literal pattern
Includes(s, w) == \E i \in 1..(Len(s) + 1) : OccursAt(s, w, i)

\* a literal pattern anchored with ^
StartsWith(s, w) == OccursAt(s, w, 1)

\* String.prototype.split on a one-character separator
RECURSIVE Split(_, _)
Split(s, sep) ==
  IF \E i \in 1..Len(s) : s[i] = sep
    THEN LET i == CHOOSE j \in 1..Len(s) :
                    /\ s[j] = sep
                    /\ \A k \in 1..(j - 1) : s[k] # sep
         IN  << SubSeq(s, 1, i - 1) >> \o Split(SubSeq(s, i + 1, Len(s)), sep)
    ELSE << s >>

\* all sequences over S of length at most n
SeqsUpTo(S, n) == UNION { [ 1..k -> S ] : k \in 0..n }

(* --------------------------- result values ---------------------------- *)

\* enum ResultValue
ResultValue == { "VALID", "INVALID", "UNKNOWN" }

\* a promise that no resolve call has settled yet
PENDING == "PENDING"

(* ------------------------- reply classification ----------------------- *)

\* /^(510|511|513|550|551|553)/
RejectCodes ==
  { << "5","1","0" >>, << "5","1","1" >>, << "5","1","3" >>,
    << "5","5","0" >>, << "5","5","1" >>, << "5","5","3" >> }

\* the literal alternatives of /(junk|spam|openspf|spoofing|host|rbl.+blocked)/gi
SpamWords ==
  { << "j","u","n","k" >>,
    << "s","p","a","m" >>,
    << "o","p","e","n","s","p","f" >>,
    << "s","p","o","o","f","i","n","g" >>,
    << "h","o","s","t" >> }

\* the alternative rbl.+blocked, on a lower-cased line: "rbl", then one or
\* more characters other than line terminators, then "blocked"
RblBlocked(s) ==
  \E i \in 1..Len(s), j \in 1..Len(s) :
    /\ OccursAt(s, << "r","b","l" >>, i)
    /\ OccursAt(s, << "b","l","o","c","k","e","d" >>, j)
    /\ j >= i + 4
    /\ \A k \in (i + 3)..(j - 1) : s[k] \notin LineTerminators

\* /(junk|spam|openspf|spoofing|host|rbl.+blocked)/gi.test(smtpReply); the literal
\* is evaluated anew on every call, so the g flag carries no lastIndex over
SpamPattern(smtpReply) ==
  LET s == LowerCase(smtpReply)
  IN  \/ \E w \in SpamWords : Includes(s, w)
      \/ RblBlocked(s)

RejectCodePattern(smtpReply) == \E c \in RejectCodes : StartsWith(smtpReply, c)

isInvalidMailboxError(smtpReply) ==
  /\ smtpReply # << >>
  /\ RejectCodePattern(smtpReply)
  /\ ~SpamPattern(smtpReply)

\* a continuation test that knows the 220- prefix only
isMultilineGreet220Only(smtpReply) ==
  /\ smtpReply # << >>
  /\ StartsWith(smtpReply, << "2","2","0","-" >>)

\* /^(250|220)-/
isMultilineGreet(smtpReply) ==
  /\ smtpReply # << >>
  /\ \/ StartsWith(smtpReply, << "2","5","0","-" >>)
     \/ StartsWith(smtpReply, << "2","2","0","-" >>)

\* sData.includes('220') || data.includes('250')
HasProgressCode(sData) ==
  \/ Includes(sData, << "2","2","0" >>)
  \/ Includes(sData, << "2","5","0" >>)

(* ------------------------------ addresses ----------------------------- *)

\* the character class of the local part: letters, digits and
\* . ! # $ % & ' * + / = ? ^ _ { | } ~ - and the grave accent (written GRAVE
\* here: a string of this language cannot hold it)
LocalChars ==
  Letters \cup Digits \cup
  { ".", "!", "#", "$", "%", "&", "'", "*", "+", "/", "=", "?", "^", "_", "GRAVE",
    "{", "|", "}", "~", "-" }

\* [a-zA-Z0-9-]
LabelChars == Letters \cup Digits \cup { "-" }

\* [a-zA-Z0-9-]+(?:\.[a-zA-Z0-9-]+)*$ : labels of one or more label characters,
\* separated by single dots
HostPattern(d) ==
  LET labels == Split(d, ".")
  IN  \A n \in 1..Len(labels) :
        /\ labels[n] # << >>
        /\ \A k \in 1..Len(labels[n]) : labels[n][k] \in LabelChars

\* the pattern of isEmail: ^ one or more local characters, "@", a host $
isEmail(address) ==
  \E i \in 1..Len(address) :
    /\ address[i] = "@"
    /\ i > 1
    /\ \A k \in 1..(i - 1) : address[k] \in LocalChars
    /\ HostPattern(SubSeq(address, i + 1, Len(address)))

\* extractAddressParts without its test of isEmail
extractAddressPartsUnchecked(address) ==
  [ threw |-> FALSE, parts |-> Split(address, "@") ]

\* what a call of extractAddressParts ends in: the Error thrown for a malformed
\* address, or the array address.split('@')
extractAddressParts(address) ==
  IF ~isEmail(address)
    THEN [ threw |-> TRUE, parts |-> << >> ]
    ELSE [ threw |-> FALSE, parts |-> Split(address, "@") ]

\* the addresses handed to verify: every string of at most MaxAddrLen of these
\* characters, and some with dots in them
AddrChars == { "a", "@", " " }

DottedAddresses ==
  { << "a",".","a" >>, << "a","@","a",".","a" >>, << "a","@",".","a" >>, << "a","@","a","." >>, << "a",".","a","@","a",".",".","a" >> }

Addresses == SeqsUpTo(AddrChars, MaxAddrLen) \cup DottedAddresses

(* ------------------------------ MX records ---------------------------- *)

Exchanges == { << "m","x" >>, << "y","a","h","o","o" >>, << "Y","A","H","O","O" >> }

Priorities == { 10, 20 }

MxRecord == [ exchange : Exchanges, priority : Priorities ]

\* what dns.resolveMx calls back with: an error, or the records in any order
DnsFailure == [ err |-> TRUE, records |-> << >> ]

DnsAnswers ==
  { DnsFailure } \cup
  { [ err |-> FALSE, records |-> r ] : r \in SeqsUpTo(MxRecord, MaxRecords) }

\* a comparator that answers with the truth value of the comparison, which
\* sort reads as the number 1 or 0
compareFnBoolean(a, b) == IF a.priority > b.priority THEN 1 ELSE 0

\* (a, b) => (a.priority > b.priority ? 1 : -1)
compareFn(a, b) == IF a.priority > b.priority THEN 1 ELSE -1

\* Array.prototype.sort leaves the order to the engine when the comparator is
\* not consistent, and this one never answers 0.  The engines Node has shipped
\* sort a short array in one of two ways.

\* insertion sort (V8 before 7.0): element moves left past every record the
\* comparator puts after it and stops at the first one it does not
InsertFromRight(prefix, element) ==
  LET stops == { k \in 1..Len(prefix) : compareFn(prefix[k], element) <= 0 }
      j == IF stops = {} THEN 0 ELSE CHOOSE k \in stops : \A m \in stops : m <= k
  IN  SubSeq(prefix, 1, j) \o << element >> \o SubSeq(prefix, j + 1, Len(prefix))

RECURSIVE InsertionSortFrom(_, _)
InsertionSortFrom(a, i) ==
  IF i > Len(a) THEN a
  ELSE InsertionSortFrom(InsertFromRight(SubSeq(a, 1, i - 1), a[i])
                           \o SubSeq(a, i + 1, Len(a)), i + 1)

InsertionSort(a) == InsertionSortFrom(a, 2)

\* binary insertion sort (TimSort of V8 7.0 and later, arrays shorter than 64):
\* the leading run is counted, reversed when it descends, and every later
\* element is placed by binary search
RunDescends(a) == compareFn(a[2], a[1]) < 0

RunLength(a) ==
  LET keeps(idx) == IF RunDescends(a) THEN compareFn(a[idx], a[idx - 1]) < 0
                                      ELSE compareFn(a[idx], a[idx - 1]) >= 0
      runs == { r \in 2..Len(a) : \A idx \in 3..r : keeps(idx) }
  IN  CHOOSE r \in runs : \A m \in runs : m <= r

Reverse(a) == [ i \in 1..Len(a) |-> a[Len(a) + 1 - i] ]

RECURSIVE BinarySearch(_, _, _, _)
BinarySearch(a, pivot, left, right) ==
  IF left >= right THEN left
  ELSE LET mid == left + ((right - left) \div 2)
       IN  IF compareFn(pivot, a[mid]) < 0 THEN BinarySearch(a, pivot, left, mid)
                                           ELSE BinarySearch(a, pivot, mid + 1, right)

RECURSIVE BinaryInsertionFrom(_, _)
BinaryInsertionFrom(a, start) ==
  IF start > Len(a) THEN a
  ELSE LET pivot == a[start]
           left == BinarySearch(a, pivot, 1, start)
       IN  BinaryInsertionFrom(SubSeq(a, 1, left - 1) \o << pivot >>
                                 \o SubSeq(a, left, start - 1)
                                 \o SubSeq(a, start + 1, Len(a)), start + 1)

TimSort(a) ==
  IF Len(a) < 2 THEN a
  ELSE LET run == RunLength(a)
           made == IF RunDescends(a)
                     THEN Reverse(SubSeq(a, 1, run)) \o SubSeq(a, run + 1, Len(a))
                     ELSE a
       IN  BinaryInsertionFrom(made, run + 1)

\* the orders records.sort((a, b) => (a.priority > b.priority ? 1 : -1)) can
\* leave the records in
SortedByPriority(records) == { InsertionSort(records), TimSort(records) }

\* a resolver that answers a failure with no hosts
resolveMxRecordsSwallows(answer) ==
  IF answer.err
    THEN { [ rejected |-> FALSE, hosts |-> << >> ] }
    ELSE { [ rejected |-> FALSE, hosts |-> [ i \in 1..Len(s) |-> s[i].exchange ] ] :
             s \in SortedByPriority(answer.records) }

\* how the promise of static resolveMxRecords settles for a DNS answer: ninvoke
\* rejects on an error and nothing in resolveMxRecords catches it; otherwise
\* the exchanges of the sorted records
resolveMxRecords(answer) ==
  IF answer.err
    THEN { [ rejected |-> TRUE, hosts |-> << >> ] }
    ELSE { [ rejected |-> FALSE, hosts |-> [ i \in 1..Len(s) |-> s[i].exchange ] ] :
             s \in SortedByPriority(answer.records) }

\* /yahoo/.test(mxRecord)
YahooPattern(mxRecord) == Includes(mxRecord, << "y","a","h","o","o" >>)

(* ------------------------------ SMTP lines ---------------------------- *)

\* net.connect(25, mxRecord)
SmtpPort == 25

CRLF == << "\r", "\n" >>

QUIT == << "Q","U","I","T" >> \o CRLF

\* const messages = [ `HELO ${domain}`, `MAIL FROM: <${local}@${domain}>`,
\*                    `RCPT TO: <${local}@${domain}>` ]
Messages(loc, dom) ==
  << << "H","E","L","O"," " >> \o dom,
     << "M","A","I","L"," ","F","R","O","M",":"," ","<" >> \o loc \o << "@" >> \o dom \o << ">" >>,
     << "R","C","P","T"," ","T","O",":"," ","<" >> \o loc \o << "@" >> \o dom \o << ">" >> >>

\* the chunks the remote server is made to send
Replies ==
  { << "2","2","0"," ","F","o","o" >>,
    << "2","2","0","-","F","o","o" >>,
    << "2","5","0"," ","F","o","o" >>,
    << "2","5","0","-","F","o","o" >>,
    << "5","0","0"," ","F","o","o" >>,
    << "5","5","0"," ","F","o","o" >>,
    << "5","5","0"," ","F","o","o"," ","2","5","0" >>,
    << "5","5","0"," ","J","u","n","k" >>,
    << "5","5","0"," ","s","p","a","m"," ","2","5","0" >>,
    << "5","5","3"," ","R","B","L"," ","x"," ","b","l","o","c","k","e","d" >>,
    << "5","5","3"," ","r","b","l","b","l","o","c","k","e","d" >>,
    << >> }

\* the three tests of the data handler, taken once for each chunk of Replies
InvalidMailboxReplies == { data \in Replies : isInvalidMailboxError(data) }

ProgressCodeReplies == { sData \in Replies : HasProgressCode(sData) }

MultilineGreetReplies == { sData \in Replies : isMultilineGreet(sData) }

(* ------------------------------- state -------------------------------- *)

VARIABLES
  options,        \* this.options of the validator
  pc,             \* where the verify call stands
  address,        \* the argument of verify
  local,          \* verify: let local
  domain,         \* verify: let domain
  mxRecords,      \* verify: let mxRecords
  result,         \* verify: const result
  resolverCalls,  \* calls of dns.resolveMx
  connectCalls,   \* calls of net.connect
  socketHost,     \* the host the probe's socket was opened to
  destroyed,      \* socket.destroyed
  endCalls,       \* calls of socket.end()
  written,        \* the lines given to socket.write, in order
  messages,       \* verifyMailbox: const messages
  retFlag,        \* verifyMailbox: let retFlag
  timerActive,    \* resTimeout is set and neither fired nor cleared
  outcome,        \* the value the probe's promise is settled with
  resolveCalls,   \* calls of the promise's resolve
  ev,             \* the socket or timer event delivered last
  resolvedBy,     \* the kind of event whose handler settled the promise
  contSeen,       \* a continuation line was received
  probeCalls,     \* calls of EmailValidator.verifyMailbox
  socketPort,     \* the port the probe's socket was opened to
  dnsErr,         \* dns.resolveMx called back with an error
  helperIn,       \* the argument of a call of a static helper
  helperOut,      \* how the promise of that call settled
  progressSeen,   \* acknowledgements the data handler has received
  closures,       \* the scopes made by concurrent calls of verifyMailbox
  env             \* for each concurrent call, the scope its handlers close over

verifyVars == << options, pc, address, local, domain, mxRecords, result,
                 resolverCalls, connectCalls, probeCalls, dnsErr >>

sessionVars == << socketHost, socketPort, destroyed, endCalls, written, messages,
                  retFlag, timerActive, outcome, resolveCalls, ev, resolvedBy,
                  contSeen, progressSeen >>

helperVars == << helperIn, helperOut >>

pairVars == << closures, env >>

vars == << options, pc, address, local, domain, mxRecords, result,
           resolverCalls, connectCalls, socketHost, destroyed, endCalls,
           written, messages, retFlag, timerActive, outcome, resolveCalls,
           ev, resolvedBy, contSeen, probeCalls, socketPort, dnsErr,
           helperIn, helperOut, progressSeen, closures, env >>

NoSocket == << >>

\* no static helper has been called
NoHelperCall == [ op |-> "none" ]

\* the concurrent calls of verifyMailbox
Sessions == { 1, 2 }

NoEvent == [ kind |-> "none", line |-> << >> ]

(* ----------------------------- constructor ---------------------------- *)

defaultOptions == [ timeout |-> 10000, verifyDomain |-> TRUE, verifyMailbox |-> TRUE ]

\* the options objects a caller passes: the keys in has are present (the
\* timeout is left at its default: the timer fires at any moment, whatever it is)
OptionChoices ==
  [ has : SUBSET { "verifyDomain", "verifyMailbox" },
    timeout : { 5000 },
    verifyDomain : BOOLEAN,
    verifyMailbox : BOOLEAN ]

\* the spread the other way round, { ...options, ...this.defaultOptions }
MergeOptionsDefaultsLast(o) == defaultOptions

\* { ...this.defaultOptions, ...options }
MergeOptions(o) ==
  [ timeout |-> IF "timeout" \in o.has THEN o.timeout ELSE defaultOptions.timeout,
    verifyDomain |-> IF "verifyDomain" \in o.has THEN o.verifyDomain
                                               ELSE defaultOptions.verifyDomain,
    verifyMailbox |-> IF "verifyMailbox" \in o.has THEN o.verifyMailbox
                                                 ELSE defaultOptions.verifyMailbox ]

\* a validator after new EmailValidator(options), no call made yet
Constructed ==
  /\ pc = "start"
  /\ address = << >>
  /\ local = << >>
  /\ domain = << >>
  /\ mxRecords = << >>
  /\ result = [ wellFormed |-> "INVALID", validDomain |-> "UNKNOWN",
                validMailbox |-> "UNKNOWN" ]
  /\ resolverCalls = 0
  /\ connectCalls = 0
  /\ probeCalls = 0
  /\ dnsErr = FALSE
  /\ socketHost = NoSocket
  /\ socketPort = 0
  /\ destroyed = FALSE
  /\ endCalls = 0
  /\ written = << >>
  /\ messages = << >>
  /\ retFlag = FALSE
  /\ timerActive = FALSE
  /\ outcome = PENDING
  /\ resolveCalls = 0
  /\ ev = NoEvent
  /\ resolvedBy = "none"
  /\ contSeen = FALSE
  /\ progressSeen = 0

Init ==
  /\ options \in { MergeOptions(o) : o \in OptionChoices }
  /\ Constructed
  /\ helperIn = NoHelperCall
  /\ helperOut = NoHelperCall
  /\ closures = << >>
  /\ env = [ i \in Sessions |-> 0 ]

(* ------------------------------- verify ------------------------------- *)

\* verify whose catch block does not return
VerifyMissingReturn(addr) ==
  /\ pc = "start"
  /\ address' = addr
  /\ LET ex == extractAddressParts(addr)
     IN  /\ local' = IF ex.threw THEN << >> ELSE ex.parts[1]
         /\ domain' = IF ex.threw THEN << >> ELSE ex.parts[2]
         /\ result' = [ result EXCEPT !.wellFormed = "VALID" ]
         /\ IF ~options.verifyDomain /\ ~options.verifyMailbox
              THEN /\ pc' = "done"
                   /\ UNCHANGED resolverCalls
              ELSE /\ pc' = "resolving"
                   /\ resolverCalls' = resolverCalls + 1
  /\ UNCHANGED << options, mxRecords, connectCalls, probeCalls, dnsErr >>
  /\ UNCHANGED sessionVars
  /\ UNCHANGED << helperVars, pairVars >>

\* verify without the return for the case that both checks are off
VerifyNoShortcut(addr) ==
  /\ pc = "start"
  /\ address' = addr
  /\ LET ex == extractAddressParts(addr)
     IN  IF ex.threw
           THEN /\ pc' = "done"
                /\ UNCHANGED << local, domain, result, resolverCalls >>
           ELSE /\ local' = ex.parts[1]
                /\ domain' = ex.parts[2]
                /\ result' = [ result EXCEPT !.wellFormed = "VALID" ]
                /\ pc' = "resolving"
                /\ resolverCalls' = resolverCalls + 1
  /\ UNCHANGED << options, mxRecords, connectCalls, probeCalls, dnsErr >>
  /\ UNCHANGED sessionVars
  /\ UNCHANGED << helperVars, pairVars >>

\* verify(address) up to its first await: the well-formedness check, the
\* shortcut when both checks are off, the call of resolveMxRecords
Verify(addr) ==
  /\ pc = "start"
  /\ address' = addr
  /\ LET ex == extractAddressParts(addr)
     IN  IF ex.threw
           THEN /\ pc' = "done"
                /\ UNCHANGED << local, domain, result, resolverCalls >>
           ELSE /\ local' = ex.parts[1]
                /\ domain' = ex.parts[2]
                /\ result' = [ result EXCEPT !.wellFormed = "VALID" ]
                /\ IF ~options.verifyDomain /\ ~options.verifyMailbox
                     THEN /\ pc' = "done"
                          /\ UNCHANGED resolverCalls
                     ELSE /\ pc' = "resolving"
                          /\ resolverCalls' = resolverCalls + 1
  /\ UNCHANGED << options, mxRecords, connectCalls, probeCalls, dnsErr >>
  /\ UNCHANGED sessionVars
  /\ UNCHANGED << helperVars, pairVars >>

\* a domain verdict that an empty host list leaves as it was
DomainVerdictNonEmptyOnly(mx) ==
  IF options.verifyDomain /\ Len(mx) > 0 THEN "VALID" ELSE result.validDomain

\* a domain verdict given whether or not verifyDomain is on
DomainVerdictUnconditional(mx) ==
  IF Len(mx) > 0 THEN "VALID" ELSE "INVALID"

\* validDomain after if (verifyDomain) { result.validDomain = ... }
DomainVerdict(mx) ==
  IF options.verifyDomain
    THEN IF Len(mx) > 0 THEN "VALID" ELSE "INVALID"
    ELSE result.validDomain

\* verifyMailbox that never starts its timer
StartProbeNoTimer(mx) ==
  /\ probeCalls' = probeCalls + 1
  /\ IF mx = << >> \/ YahooPattern(mx[1])
       THEN /\ result' = [ result EXCEPT !.validDomain = DomainVerdict(mx),
                                         !.validMailbox = "UNKNOWN" ]
            /\ pc' = "done"
            /\ UNCHANGED << connectCalls, socketHost, socketPort, messages, timerActive >>
       ELSE /\ result' = [ result EXCEPT !.validDomain = DomainVerdict(mx) ]
            /\ connectCalls' = connectCalls + 1
            /\ socketHost' = mx[1]
            /\ socketPort' = SmtpPort
            /\ messages' = Messages(local, domain)
            /\ timerActive' = FALSE
            /\ pc' = "probing"

\* verifyMailbox that takes the last of the hosts
StartProbeLastHost(mx) ==
  /\ probeCalls' = probeCalls + 1
  /\ IF mx = << >> \/ YahooPattern(mx[Len(mx)])
       THEN /\ result' = [ result EXCEPT !.validDomain = DomainVerdict(mx),
                                         !.validMailbox = "UNKNOWN" ]
            /\ pc' = "done"
            /\ UNCHANGED << connectCalls, socketHost, socketPort, messages, timerActive >>
       ELSE /\ result' = [ result EXCEPT !.validDomain = DomainVerdict(mx) ]
            /\ connectCalls' = connectCalls + 1
            /\ socketHost' = mx[Len(mx)]
            /\ socketPort' = SmtpPort
            /\ messages' = Messages(local, domain)
            /\ timerActive' = TRUE
            /\ pc' = "probing"

\* verifyMailbox that answers VALID when there is no host or a yahoo host
StartProbeNoHostValid(mx) ==
  /\ probeCalls' = probeCalls + 1
  /\ IF mx = << >> \/ YahooPattern(mx[1])
       THEN /\ result' = [ result EXCEPT !.validDomain = DomainVerdict(mx),
                                         !.validMailbox = "VALID" ]
            /\ pc' = "done"
            /\ UNCHANGED << connectCalls, socketHost, socketPort, messages, timerActive >>
       ELSE /\ result' = [ result EXCEPT !.validDomain = DomainVerdict(mx) ]
            /\ connectCalls' = connectCalls + 1
            /\ socketHost' = mx[1]
            /\ socketPort' = SmtpPort
            /\ messages' = Messages(local, domain)
            /\ timerActive' = TRUE
            /\ pc' = "probing"

\* the domain verdict of verify, then verifyMailbox up to the promise it
\* returns: the shortcut for a missing or yahoo host, else net.connect to the
\* first host, the script and setTimeout
StartProbe(mx) ==
  /\ probeCalls' = probeCalls + 1
  /\ IF mx = << >> \/ YahooPattern(mx[1])
       THEN /\ result' = [ result EXCEPT !.validDomain = DomainVerdict(mx),
                                         !.validMailbox = "UNKNOWN" ]
            /\ pc' = "done"
            /\ UNCHANGED << connectCalls, socketHost, socketPort, messages, timerActive >>
       ELSE /\ result' = [ result EXCEPT !.validDomain = DomainVerdict(mx) ]
            /\ connectCalls' = connectCalls + 1
            /\ socketHost' = mx[1]
            /\ socketPort' = SmtpPort
            /\ messages' = Messages(local, domain)
            /\ timerActive' = TRUE
            /\ pc' = "probing"

\* verify whose await of resolveMxRecords stands outside any try
ResolveReturnUncaught(answer) ==
  /\ pc = "resolving"
  /\ dnsErr' = answer.err
  /\ \E settled \in resolveMxRecords(answer) :
       IF settled.rejected
         THEN /\ pc' = "failed"
              /\ UNCHANGED << mxRecords, result, probeCalls, connectCalls, socketHost,
                              socketPort, messages, timerActive >>
         ELSE /\ mxRecords' = settled.hosts
              /\ IF options.verifyMailbox
                   THEN StartProbe(settled.hosts)
                   ELSE /\ result' = [ result EXCEPT
                                         !.validDomain = DomainVerdict(settled.hosts) ]
                        /\ pc' = "done"
                        /\ UNCHANGED << probeCalls, connectCalls, socketHost, socketPort,
                                        messages, timerActive >>
  /\ UNCHANGED << options, address, local, domain, resolverCalls >>
  /\ UNCHANGED << destroyed, endCalls, written, retFlag, outcome, resolveCalls, ev,
                  resolvedBy, contSeen, progressSeen >>
  /\ UNCHANGED << helperVars, pairVars >>

\* verify that calls verifyMailbox whether or not the option is on
ResolveReturnAlwaysProbes(answer) ==
  /\ pc = "resolving"
  /\ dnsErr' = answer.err
  /\ \E settled \in resolveMxRecords(answer) :
       LET mx == IF settled.rejected THEN << >> ELSE settled.hosts
       IN  /\ mxRecords' = mx
           /\ StartProbe(mx)
  /\ UNCHANGED << options, address, local, domain, resolverCalls >>
  /\ UNCHANGED << destroyed, endCalls, written, retFlag, outcome, resolveCalls, ev,
                  resolvedBy, contSeen, progressSeen >>
  /\ UNCHANGED << helperVars, pairVars >>

\* verify after await resolveMxRecords: a rejection is caught and leaves no
\* records; then the domain verdict, and the mailbox probe when it is enabled
ResolveReturn(answer) ==
  /\ pc = "resolving"
  /\ dnsErr' = answer.err
  /\ \E settled \in resolveMxRecords(answer) :
       LET mx == IF settled.rejected THEN << >> ELSE settled.hosts
       IN  /\ mxRecords' = mx
           /\ IF options.verifyMailbox
                THEN StartProbe(mx)
                ELSE /\ result' = [ result EXCEPT !.validDomain = DomainVerdict(mx) ]
                     /\ pc' = "done"
                     /\ UNCHANGED << probeCalls, connectCalls, socketHost, socketPort,
                                     messages, timerActive >>
  /\ UNCHANGED << options, address, local, domain, resolverCalls >>
  /\ UNCHANGED << destroyed, endCalls, written, retFlag, outcome, resolveCalls, ev,
                  resolvedBy, contSeen, progressSeen >>
  /\ UNCHANGED << helperVars, pairVars >>

\* verify after await verifyMailbox: the probe's value becomes validMailbox
VerifyReturn ==
  /\ pc = "resolved"
  /\ result' = [ result EXCEPT !.validMailbox = outcome ]
  /\ pc' = "done"
  /\ UNCHANGED << options, address, local, domain, mxRecords, resolverCalls,
                  connectCalls, probeCalls, dnsErr >>
  /\ UNCHANGED sessionVars
  /\ UNCHANGED << helperVars, pairVars >>

(* ---------------------------- mailbox probe --------------------------- *)

\* ret without its test of retFlag
RetUnguarded(res, isDestroyed) ==
  /\ IF ~isDestroyed
       THEN /\ written' = Append(written, QUIT)
            /\ endCalls' = endCalls + 1
       ELSE UNCHANGED << written, endCalls >>
  /\ timerActive' = FALSE
  /\ outcome' = IF outcome = PENDING THEN res ELSE outcome
  /\ resolveCalls' = resolveCalls + 1
  /\ retFlag' = TRUE
  /\ pc' = IF pc = "probing" THEN "resolved" ELSE pc

\* ret that never sets retFlag
RetFlagNotSet(res, isDestroyed) ==
  IF retFlag
    THEN UNCHANGED << written, endCalls, timerActive, outcome, resolveCalls, retFlag, pc >>
    ELSE /\ IF ~isDestroyed
              THEN /\ written' = Append(written, QUIT)
                   /\ endCalls' = endCalls + 1
              ELSE UNCHANGED << written, endCalls >>
         /\ timerActive' = FALSE
         /\ outcome' = IF outcome = PENDING THEN res ELSE outcome
         /\ resolveCalls' = resolveCalls + 1
         /\ retFlag' = retFlag
         /\ pc' = IF pc = "probing" THEN "resolved" ELSE pc

\* ret without clearTimeout
RetKeepsTimer(res, isDestroyed) ==
  IF retFlag
    THEN UNCHANGED << written, endCalls, timerActive, outcome, resolveCalls, retFlag, pc >>
    ELSE /\ IF ~isDestroyed
              THEN /\ written' = Append(written, QUIT)
                   /\ endCalls' = endCalls + 1
              ELSE UNCHANGED << written, endCalls >>
         /\ timerActive' = timerActive
         /\ outcome' = IF outcome = PENDING THEN res ELSE outcome
         /\ resolveCalls' = resolveCalls + 1
         /\ retFlag' = TRUE
         /\ pc' = IF pc = "probing" THEN "resolved" ELSE pc

\* ret without its test of socket.destroyed
RetIgnoresDestroyed(res, isDestroyed) ==
  IF retFlag
    THEN UNCHANGED << written, endCalls, timerActive, outcome, resolveCalls, retFlag, pc >>
    ELSE /\ written' = Append(written, QUIT)
         /\ endCalls' = endCalls + 1
         /\ timerActive' = FALSE
         /\ outcome' = IF outcome = PENDING THEN res ELSE outcome
         /\ resolveCalls' = resolveCalls + 1
         /\ retFlag' = TRUE
         /\ pc' = IF pc = "probing" THEN "resolved" ELSE pc

\* const ret = (result) => ... ; isDestroyed is socket.destroyed at the call
Ret(res, isDestroyed) ==
  IF retFlag
    THEN UNCHANGED << written, endCalls, timerActive, outcome, resolveCalls, retFlag, pc >>
    ELSE /\ IF ~isDestroyed
              THEN /\ written' = Append(written, QUIT)
                   /\ endCalls' = endCalls + 1
              ELSE UNCHANGED << written, endCalls >>
         /\ timerActive' = FALSE
         /\ outcome' = IF outcome = PENDING THEN res ELSE outcome
         /\ resolveCalls' = resolveCalls + 1
         /\ retFlag' = TRUE
         /\ pc' = IF pc = "probing" THEN "resolved" ELSE pc

\* events reach the handlers once the socket exists, and never between the
\* settling of the promise and the continuation of verify that awaits it
Listening == socketHost # NoSocket /\ pc \in { "probing", "done" }

\* a data handler with the progress-code test ahead of the rejection test
DataVerdictProgressFirst(data, queued) ==
  IF data \notin ProgressCodeReplies THEN "UNKNOWN"
  ELSE IF data \in InvalidMailboxReplies THEN "INVALID"
  ELSE IF data \in MultilineGreetReplies THEN "wait"
  ELSE IF queued > 0 THEN "write"
  ELSE "VALID"

\* a data handler without the test of isMultilineGreet
DataVerdictContinuationWrites(data, queued) ==
  IF data \in InvalidMailboxReplies THEN "INVALID"
  ELSE IF data \notin ProgressCodeReplies THEN "UNKNOWN"
  ELSE IF queued > 0 THEN "write"
  ELSE "VALID"

\* a data handler that stops one command short of the script
DataVerdictOffByOne(data, queued) ==
  IF data \in InvalidMailboxReplies THEN "INVALID"
  ELSE IF data \notin ProgressCodeReplies THEN "UNKNOWN"
  ELSE IF data \in MultilineGreetReplies THEN "wait"
  ELSE IF queued > 1 THEN "write"
  ELSE "VALID"

\* the branch the data handler takes for a chunk, with queued commands left in
\* messages: ret(INVALID), ret(UNKNOWN), return, write the next command, ret(VALID)
DataVerdict(data, queued) ==
  IF data \in InvalidMailboxReplies THEN "INVALID"
  ELSE IF data \notin ProgressCodeReplies THEN "UNKNOWN"
  ELSE IF data \in MultilineGreetReplies THEN "wait"
  ELSE IF queued > 0 THEN "write"
  ELSE "VALID"

\* socket.on('data', ...)
OnData(data) ==
  /\ Listening
  /\ ~destroyed
  /\ ev' = [ kind |-> "data", line |-> data ]
  /\ progressSeen' = IF /\ data \notin InvalidMailboxReplies
                         /\ data \in ProgressCodeReplies
                         /\ data \notin MultilineGreetReplies
                         /\ progressSeen < MaxProgressSeen
                        THEN progressSeen + 1
                        ELSE progressSeen
  /\ LET verdict == DataVerdict(data, Len(messages))
     IN  CASE verdict = "wait" ->
                /\ contSeen' = TRUE
                /\ UNCHANGED << messages, written, endCalls, timerActive, outcome,
                                resolveCalls, retFlag, pc >>
           [] verdict = "write" ->
                /\ messages' = Tail(messages)
                /\ written' = Append(written, Head(messages) \o CRLF)
                /\ UNCHANGED << contSeen, endCalls, timerActive, outcome,
                                resolveCalls, retFlag, pc >>
           [] OTHER ->
                /\ Ret(verdict, destroyed)
                /\ UNCHANGED << messages, contSeen >>
  /\ resolvedBy' = IF ~retFlag /\ retFlag' THEN "data" ELSE resolvedBy
  /\ UNCHANGED << probeCalls, socketPort, dnsErr, helperVars, pairVars >>
  /\ UNCHANGED << options, address, local, domain, mxRecords, result,
                  resolverCalls, connectCalls, socketHost, destroyed >>

\* an error handler that takes the failure for a rejection
OnErrorInvalid(destroys) ==
  /\ Listening
  /\ ~destroyed
  /\ ev' = [ kind |-> "error", line |-> << >> ]
  /\ destroyed' = destroys
  /\ Ret("INVALID", destroys)
  /\ resolvedBy' = IF ~retFlag /\ retFlag' THEN "error" ELSE resolvedBy
  /\ UNCHANGED << probeCalls, socketPort, dnsErr, helperVars, pairVars, progressSeen >>
  /\ UNCHANGED << options, address, local, domain, mxRecords, result,
                  resolverCalls, connectCalls, socketHost, messages, contSeen >>

\* socket.on('error', ...); destroys: the failure has destroyed the socket by
\* the time the handler runs
OnError(destroys) ==
  /\ Listening
  /\ ~destroyed
  /\ ev' = [ kind |-> "error", line |-> << >> ]
  /\ destroyed' = destroys
  /\ Ret("UNKNOWN", destroys)
  /\ resolvedBy' = IF ~retFlag /\ retFlag' THEN "error" ELSE resolvedBy
  /\ UNCHANGED << probeCalls, socketPort, dnsErr, helperVars, pairVars, progressSeen >>
  /\ UNCHANGED << options, address, local, domain, mxRecords, result,
                  resolverCalls, connectCalls, socketHost, messages, contSeen >>

\* a timer callback that takes the silence for a rejection
OnTimeoutInvalid ==
  /\ Listening
  /\ timerActive
  /\ ev' = [ kind |-> "timeout", line |-> << >> ]
  /\ Ret("INVALID", destroyed)
  /\ resolvedBy' = IF ~retFlag /\ retFlag' THEN "timeout" ELSE resolvedBy
  /\ UNCHANGED << probeCalls, socketPort, dnsErr, helperVars, pairVars, progressSeen >>
  /\ UNCHANGED << options, address, local, domain, mxRecords, result,
                  resolverCalls, connectCalls, socketHost, destroyed, messages, contSeen >>

\* a timer callback that settles the promise itself, without ret
OnTimeoutResolveOnly ==
  /\ Listening
  /\ timerActive
  /\ ev' = [ kind |-> "timeout", line |-> << >> ]
  /\ timerActive' = FALSE
  /\ outcome' = IF outcome = PENDING THEN "UNKNOWN" ELSE outcome
  /\ resolveCalls' = resolveCalls + 1
  /\ retFlag' = TRUE
  /\ pc' = IF pc = "probing" THEN "resolved" ELSE pc
  /\ resolvedBy' = IF ~retFlag THEN "timeout" ELSE resolvedBy
  /\ UNCHANGED << probeCalls, socketPort, dnsErr, helperVars, pairVars, progressSeen >>
  /\ UNCHANGED << options, address, local, domain, mxRecords, result,
                  resolverCalls, connectCalls, socketHost, destroyed, messages, contSeen,
                  written, endCalls >>

\* the callback of setTimeout(..., timeout)
OnTimeout ==
  /\ Listening
  /\ timerActive
  /\ ev' = [ kind |-> "timeout", line |-> << >> ]
  /\ Ret("UNKNOWN", destroyed)
  /\ resolvedBy' = IF ~retFlag /\ retFlag' THEN "timeout" ELSE resolvedBy
  /\ UNCHANGED << probeCalls, socketPort, dnsErr, helperVars, pairVars, progressSeen >>
  /\ UNCHANGED << options, address, local, domain, mxRecords, result,
                  resolverCalls, connectCalls, socketHost, destroyed, messages, contSeen >>

\* the connection goes away with no 'error' event: no handler runs
OnClose ==
  /\ Listening
  /\ ~destroyed
  /\ destroyed' = TRUE
  /\ ev' = [ kind |-> "close", line |-> << >> ]
  /\ UNCHANGED << probeCalls, socketPort, dnsErr, helperVars, pairVars, progressSeen >>
  /\ UNCHANGED << options, pc, address, local, domain, mxRecords, result,
                  resolverCalls, connectCalls, socketHost, endCalls, written,
                  messages, retFlag, timerActive, outcome, resolveCalls, resolvedBy,
                  contSeen >>

Next ==
  \/ \E addr \in Addresses : Verify(addr)
  \/ \E answer \in DnsAnswers : ResolveReturn(answer)
  \/ VerifyReturn
  \/ \E data \in Replies : OnData(data)
  \/ \E destroys \in BOOLEAN : OnError(destroys)
  \/ OnTimeout
  \/ OnClose

Spec == Init /\ [][Next]_vars

\* the timer set by setTimeout fires unless clearTimeout cancels it
FairSpec == Spec /\ WF_vars(OnTimeout)

\* dns.resolveMx calls back, a settled promise runs its continuation, and the
\* timer fires unless it is cleared
LiveSpec ==
  /\ Spec
  /\ WF_vars(\E answer \in DnsAnswers : ResolveReturn(answer))
  /\ WF_vars(VerifyReturn)
  /\ WF_vars(OnTimeout)

(* ---------------------------- static helpers -------------------------- *)

\* the answers dns.resolveMx gives a call of the helper: three priorities, so
\* that a record can stand between two others
HelperPriorities == { 10, 20, 30 }

HelperRecord == [ exchange : Exchanges, priority : HelperPriorities ]

HelperAnswers ==
  { DnsFailure } \cup
  { [ err |-> FALSE, records |-> r ] : r \in SeqsUpTo(HelperRecord, MaxSortLen) }

\* the options objects a caller passes to the constructor: the keys in has
\* are present
ConstructorChoices ==
  [ has : SUBSET { "timeout", "verifyDomain", "verifyMailbox" },
    timeout : { 5000 },
    verifyDomain : BOOLEAN,
    verifyMailbox : BOOLEAN ]

\* the calls of the constructor and of the static helpers
HelperCalls ==
  { [ op |-> "resolveMxRecords", answer |-> a ] : a \in HelperAnswers }
    \cup { [ op |-> "extractAddressParts", address |-> a ] : a \in Addresses }
    \cup { [ op |-> "constructor", passed |-> o ] : o \in ConstructorChoices }

\* a pending call: EmailValidator.resolveMxRecords(domain) that dns.resolveMx
\* is about to answer, EmailValidator.extractAddressParts(address), or
\* new EmailValidator(options)
HelperInit ==
  /\ options = defaultOptions
  /\ Constructed
  /\ helperIn \in HelperCalls
  /\ helperOut = NoHelperCall
  /\ closures = << >>
  /\ env = [ i \in Sessions |-> 0 ]

\* static resolveMxRecords(domain), from the DNS answer to the settled promise
CallResolveMxRecords ==
  /\ helperIn.op = "resolveMxRecords"
  /\ helperOut = NoHelperCall
  /\ \E settled \in resolveMxRecords(helperIn.answer) :
       helperOut' = [ op |-> "resolveMxRecords", rejected |-> settled.rejected,
                      hosts |-> settled.hosts ]
  /\ UNCHANGED << verifyVars, sessionVars, pairVars, helperIn >>

\* static extractAddressParts(address)
CallExtractAddressParts ==
  /\ helperIn.op = "extractAddressParts"
  /\ helperOut = NoHelperCall
  /\ LET ex == extractAddressParts(helperIn.address)
     IN  helperOut' = [ op |-> "extractAddressParts", threw |-> ex.threw,
                        parts |-> ex.parts ]
  /\ UNCHANGED << verifyVars, sessionVars, pairVars, helperIn >>

\* new EmailValidator(options)
CallConstructor ==
  /\ helperIn.op = "constructor"
  /\ helperOut = NoHelperCall
  /\ options' = MergeOptions(helperIn.passed)
  /\ helperOut' = [ op |-> "constructor" ]
  /\ UNCHANGED << pc, address, local, domain, mxRecords, result, resolverCalls,
                  connectCalls, probeCalls, dnsErr >>
  /\ UNCHANGED << sessionVars, pairVars, helperIn >>

HelperNext ==
  \/ CallResolveMxRecords
  \/ CallExtractAddressParts
  \/ CallConstructor

HelperSpec == HelperInit /\ [][HelperNext]_vars

(* -------------------------- concurrent probes ------------------------- *)

\* the chunks the servers of two concurrent sessions send
PairReplies ==
  { << "2","5","0"," ","F","o","o" >>,
    << "2","5","0","-","F","o","o" >>,
    << "5","0","0"," ","F","o","o" >>,
    << "5","5","0"," ","F","o","o" >> }

\* the scope the executor of new Promise(resolve => ...) makes at a call of
\* verifyMailbox: socket, retFlag, messages, resTimeout and the promise
NewClosure ==
  [ messages |-> Messages(<< "a" >>, << "a" >>),
    retFlag |-> FALSE,
    timerActive |-> TRUE,
    destroyed |-> FALSE,
    written |-> << >>,
    endCalls |-> 0,
    outcome |-> PENDING ]

\* ret(result) in the scope c
RetOf(c, res, isDestroyed) ==
  IF c.retFlag
    THEN c
    ELSE [ c EXCEPT !.written = IF isDestroyed THEN @ ELSE Append(@, QUIT),
                    !.endCalls = IF isDestroyed THEN @ ELSE @ + 1,
                    !.timerActive = FALSE,
                    !.outcome = IF @ = PENDING THEN res ELSE @,
                    !.retFlag = TRUE ]

\* the data handler in the scope c
DataOf(c, data) ==
  LET verdict == DataVerdict(data, Len(c.messages))
  IN  CASE verdict = "wait" -> c
        [] verdict = "write" ->
             [ c EXCEPT !.messages = Tail(@),
                        !.written = Append(@, Head(c.messages) \o CRLF) ]
        [] OTHER -> RetOf(c, verdict, c.destroyed)

\* two calls of verifyMailbox with no state of their own: the second runs in
\* the scope of the first
PairConnectShared(i) ==
  /\ env[i] = 0
  /\ IF closures = << >>
       THEN /\ closures' = Append(closures, NewClosure)
            /\ env' = [ env EXCEPT ![i] = Len(closures) + 1 ]
       ELSE /\ closures' = closures
            /\ env' = [ env EXCEPT ![i] = 1 ]
  /\ UNCHANGED << verifyVars, sessionVars, helperVars >>

\* call i of verifyMailbox: the executor runs in a scope of its own
PairConnect(i) ==
  /\ env[i] = 0
  /\ closures' = Append(closures, NewClosure)
  /\ env' = [ env EXCEPT ![i] = Len(closures) + 1 ]
  /\ UNCHANGED << verifyVars, sessionVars, helperVars >>

\* a chunk arrives on the socket of call i
PairData(i, data) ==
  /\ env[i] # 0
  /\ ~closures[env[i]].destroyed
  /\ closures' = [ closures EXCEPT ![env[i]] = DataOf(@, data) ]
  /\ UNCHANGED << env, verifyVars, sessionVars, helperVars >>

\* the socket of call i fails
PairError(i, destroys) ==
  /\ env[i] # 0
  /\ ~closures[env[i]].destroyed
  /\ closures' = [ closures EXCEPT
                     ![env[i]] = RetOf([ @ EXCEPT !.destroyed = destroys ],
                                       "UNKNOWN", destroys) ]
  /\ UNCHANGED << env, verifyVars, sessionVars, helperVars >>

\* the timer of call i fires
PairTimeout(i) ==
  /\ env[i] # 0
  /\ closures[env[i]].timerActive
  /\ closures' = [ closures EXCEPT ![env[i]] = RetOf(@, "UNKNOWN", @.destroyed) ]
  /\ UNCHANGED << env, verifyVars, sessionVars, helperVars >>

\* two calls of verifyMailbox are made on one validator
PairInit ==
  /\ options = defaultOptions
  /\ Constructed
  /\ helperIn = NoHelperCall
  /\ helperOut = NoHelperCall
  /\ closures = << >>
  /\ env = [ i \in Sessions |-> 0 ]

PairNext ==
  \E i \in Sessions :
    \/ PairConnect(i)
    \/ \E data \in PairReplies : PairData(i, data)
    \/ \E destroys \in BOOLEAN : PairError(i, destroys)
    \/ PairTimeout(i)

PairSpec == PairInit /\ [][PairNext]_vars

(* ============================== properties ============================ *)

\* the result verify starts from and returns for a malformed address
MalformedResult ==
  [ wellFormed |-> "INVALID", validDomain |-> "UNKNOWN", validMailbox |-> "UNKNOWN" ]

\* C1: for every malformed address, whatever the options, verify returns
\* {INVALID, UNKNOWN, UNKNOWN} at once, the MX resolver is never called and no
\* connection is opened.
C1_MalformedReturnsImmediately ==
  (pc # "start" /\ ~isEmail(address)) =>
    /\ pc = "done"
    /\ result = MalformedResult
    /\ resolverCalls = 0
    /\ connectCalls = 0
    /\ socketHost = NoSocket

\* verify("a.a") has returned under the default options
C1_Witness ==
  /\ pc = "done"
  /\ address = << "a",".","a" >>
  /\ options = defaultOptions
  /\ result = MalformedResult

\* C2: a probe session resolves exactly once: resolve is called at most once,
\* and once the session has resolved no step changes the outcome, calls
\* resolve again or clears the resolved flag.
C2_ResolvesExactlyOnce ==
  [][ /\ resolveCalls' <= 1
      /\ retFlag => /\ retFlag'
                    /\ outcome' = outcome
                    /\ resolveCalls' = resolveCalls ]_vars

\* a socket error was delivered to a session that a rejection had resolved
C2_Witness ==
  /\ outcome = "INVALID"
  /\ resolvedBy = "data"
  /\ ev.kind = "error"
  /\ resolveCalls = 1

\* how often QUIT was written
QuitCount == Cardinality({ i \in 1..Len(written) : written[i] = QUIT })

\* C3: within one probe session QUIT is written at most once and the connection
\* is closed at most once, whatever the order of timeout and error events.
C3_TeardownAtMostOnce ==
  /\ QuitCount <= 1
  /\ endCalls <= 1

\* the timeout resolved the session and tore it down, then an error arrived on
\* the socket, which was not destroyed
C3_Witness ==
  /\ resolvedBy = "timeout"
  /\ ev.kind = "error"
  /\ ~destroyed
  /\ QuitCount = 1
  /\ endCalls = 1

\* the whole script as written on the socket, and the QUIT of the teardown
FullScript ==
  [ i \in 1..3 |-> Messages(local, domain)[i] \o CRLF ] \o << QUIT >>

\* the replies that let the conversation go on: no mailbox rejection, a
\* progress code in them, no continuation line
ProgressableReplies ==
  { line \in Replies : /\ ~isInvalidMailboxError(line)
                       /\ HasProgressCode(line)
                       /\ ~isMultilineGreet(line) }

\* the replies that start with a mailbox-rejection code, without and with a
\* spam/policy keyword
PlainRejections == { line \in Replies : RejectCodePattern(line) /\ ~SpamPattern(line) }

SpamRejections == { line \in Replies : RejectCodePattern(line) /\ SpamPattern(line) }

\* C4: the session resolves VALID exactly in the step in which a progressable
\* reply arrives while the session is unresolved and the command queue is
\* empty; by then HELO, MAIL FROM and RCPT TO have been written in that order,
\* and verify returns validMailbox = VALID.
C4_ValidOnlyAfterFullHandshake ==
  [][ /\ (outcome # "VALID" /\ outcome' = "VALID") <=>
           /\ messages = << >>
           /\ ~retFlag
           /\ \E data \in ProgressableReplies : OnData(data)
      /\ outcome' = "VALID" => written' = FullScript'
      /\ (outcome' = "VALID" /\ pc' = "done") => result'.validMailbox = "VALID" ]_vars

\* verify has returned VALID for the mailbox after banner and three acknowledgements
C4_Witness ==
  /\ pc = "done"
  /\ result = [ wellFormed |-> "VALID", validDomain |-> "VALID", validMailbox |-> "VALID" ]
  /\ written = FullScript
  /\ messages = << >>

\* C5: a reply that starts with a mailbox-rejection code and holds none of the
\* spam/policy keywords resolves an unresolved session INVALID, also when the
\* reply holds 220 or 250.
C5_RejectionResolvesInvalid ==
  [][ \A data \in PlainRejections :
        (~retFlag /\ OnData(data))
        => /\ outcome' = "INVALID"
           /\ retFlag'
           /\ messages' = messages ]_vars

\* "550 Foo 250" has just resolved the session INVALID
C5_Witness ==
  /\ pc = "resolved"
  /\ ev = [ kind |-> "data", line |-> << "5","5","0"," ","F","o","o"," ","2","5","0" >> ]
  /\ outcome = "INVALID"

\* C6: a reply that starts with a mailbox-rejection code and holds a
\* spam/policy keyword resolves an unresolved session UNKNOWN; it never gives
\* INVALID and never makes the handshake go on.
C6_SpamRejectionResolvesUnknown ==
  [][ \A data \in SpamRejections :
        (~retFlag /\ OnData(data))
        => /\ outcome' = "UNKNOWN"
           /\ messages' = messages ]_vars

\* the replies that start with 220- or 250-
ContinuationLines ==
  { line \in Replies :
      /\ Len(line) >= 4
      /\ SubSeq(line, 1, 4) \in { << "2","2","0","-" >>, << "2","5","0","-" >> } }

\* C7: a continuation line changes nothing: nothing is written, the command
\* queue keeps its commands, and the session, its timer and the verify call
\* stay as they are.
C7_ContinuationChangesNothing ==
  [][ \A data \in ContinuationLines :
        OnData(data)
        => UNCHANGED << written, messages, retFlag, outcome, resolveCalls, endCalls,
                        timerActive, destroyed, pc, result >> ]_vars

\* continuation lines came first, and the handshake still ended VALID
C7_Witness ==
  /\ contSeen
  /\ outcome = "VALID"
  /\ written = FullScript
  /\ result.validMailbox = "VALID"

\* C8: a socket error resolves an unresolved session UNKNOWN at every stage of
\* the handshake, and leaves the outcome of a resolved session as it is.
C8_SocketErrorResolvesUnknown ==
  [][ \A destroys \in BOOLEAN :
        OnError(destroys)
        => /\ retFlag'
           /\ outcome' = IF retFlag THEN outcome ELSE "UNKNOWN" ]_vars

\* an error after RCPT TO was written has just resolved the session UNKNOWN
C8_Witness ==
  /\ pc = "resolved"
  /\ ev.kind = "error"
  /\ resolvedBy = "error"
  /\ messages = << >>
  /\ outcome = "UNKNOWN"

\* C9: when the timer fires the session resolves UNKNOWN, and QUIT is written
\* and the connection closed if and only if the socket is not destroyed.
C9_TimeoutResolvesUnknownAndTearsDown ==
  [][ OnTimeout
      => /\ ~retFlag
         /\ retFlag'
         /\ outcome' = "UNKNOWN"
         /\ ~timerActive'
         /\ IF destroyed
              THEN written' = written /\ endCalls' = endCalls
              ELSE written' = Append(written, QUIT) /\ endCalls' = endCalls + 1 ]_vars

\* the timer has just fired in the middle of the handshake, on an open socket
C9_Witness ==
  /\ pc = "resolved"
  /\ ev.kind = "timeout"
  /\ ~destroyed
  /\ Len(messages) = 1
  /\ written[Len(written)] = QUIT
  /\ outcome = "UNKNOWN"

\* C10: under the sole assumption that the timer fires, every probe session
\* that has opened a connection resolves, whatever the server does.
C10_ProbeEventuallyResolves == (pc = "probing") ~> (outcome # PENDING)

\* continuation lines, then a close with no error event, then the timer
C10_Witness ==
  /\ resolvedBy = "timeout"
  /\ destroyed
  /\ contSeen
  /\ written = << >>
  /\ outcome = "UNKNOWN"

(* ------------------------ verify and its options ---------------------- *)

\* the addresses of the model that are well formed
WellFormedAddresses == { a \in Addresses : isEmail(a) }

\* the exchanges whose name holds "yahoo" in some letter case
YahooAnyCase ==
  { h \in Exchanges : Includes(LowerCase(h), << "y","a","h","o","o" >>) }

\* the exchanges the probe does not connect to
UnprobedHosts == { h \in Exchanges : YahooPattern(h) }

\* C11: when the name of the top-priority MX host holds "yahoo" in any letter
\* case, the mailbox probe returns UNKNOWN and opens no connection, and
\* validDomain is VALID when the domain check is on.
C11_YahooAnyCaseIsNotProbed ==
  (probeCalls = 1 /\ mxRecords # << >> /\ mxRecords[1] \in YahooAnyCase)
    => /\ pc = "done"
       /\ connectCalls = 0
       /\ result.validMailbox = "UNKNOWN"
       /\ options.verifyDomain => result.validDomain = "VALID"

\* C12: for every well-formed address whose resolved host list is empty (no
\* records, or the resolution failed), verify with the default options returns
\* validDomain INVALID and validMailbox UNKNOWN; the mailbox probe is called
\* after the failed domain check and opens no connection.
C12_EmptyHostList ==
  ( /\ address \in WellFormedAddresses
    /\ options = defaultOptions
    /\ pc \notin { "start", "resolving" }
    /\ mxRecords = << >> )
    => /\ pc = "done"
       /\ result = [ wellFormed |-> "VALID", validDomain |-> "INVALID",
                     validMailbox |-> "UNKNOWN" ]
       /\ resolverCalls = 1
       /\ probeCalls = 1
       /\ connectCalls = 0
       /\ socketHost = NoSocket

\* the resolution failed under the default options and verify has returned
C12_Witness ==
  /\ pc = "done"
  /\ options = defaultOptions
  /\ address \in WellFormedAddresses
  /\ dnsErr
  /\ probeCalls = 1
  /\ result.validDomain = "INVALID"
  /\ result.validMailbox = "UNKNOWN"

\* C13: with verifyMailbox off and verifyDomain on, verify of a well-formed
\* address calls the MX resolver, opens no connection and returns validMailbox
\* UNKNOWN.
C13_MailboxCheckOff ==
  ( /\ address \in WellFormedAddresses
    /\ options.verifyDomain
    /\ ~options.verifyMailbox
    /\ pc # "start" )
    => /\ pc \in { "resolving", "done" }
       /\ resolverCalls = 1
       /\ probeCalls = 0
       /\ connectCalls = 0
       /\ socketHost = NoSocket
       /\ result.validMailbox = "UNKNOWN"

\* verify has returned for a domain whose top host the probe would connect to
C13_Witness ==
  /\ pc = "done"
  /\ options.verifyDomain
  /\ ~options.verifyMailbox
  /\ mxRecords # << >>
  /\ mxRecords[1] \notin UnprobedHosts
  /\ result = [ wellFormed |-> "VALID", validDomain |-> "VALID",
                validMailbox |-> "UNKNOWN" ]
  /\ resolverCalls = 1
  /\ connectCalls = 0

\* C14: with verifyDomain and verifyMailbox both off, verify of a well-formed
\* address returns {VALID, UNKNOWN, UNKNOWN}, the MX resolver is not called and
\* no connection is opened.
C14_BothChecksOff ==
  ( /\ address \in WellFormedAddresses
    /\ ~options.verifyDomain
    /\ ~options.verifyMailbox
    /\ pc # "start" )
    => /\ pc = "done"
       /\ result = [ wellFormed |-> "VALID", validDomain |-> "UNKNOWN",
                     validMailbox |-> "UNKNOWN" ]
       /\ resolverCalls = 0
       /\ probeCalls = 0
       /\ connectCalls = 0

\* verify has returned for a well-formed address with both checks off
C14_Witness ==
  /\ pc = "done"
  /\ ~options.verifyDomain
  /\ ~options.verifyMailbox
  /\ address \in WellFormedAddresses
  /\ result.wellFormed = "VALID"
  /\ resolverCalls = 0

\* C15: with verifyDomain off and verifyMailbox on, validDomain is UNKNOWN for
\* every answer of the resolver (records, no records, failure), the resolver
\* is called all the same and the mailbox probe runs against the first of the
\* resolved hosts.
C15_DomainCheckOff ==
  ( /\ address \in WellFormedAddresses
    /\ ~options.verifyDomain
    /\ options.verifyMailbox
    /\ pc # "start" )
    => /\ result.validDomain = "UNKNOWN"
       /\ resolverCalls = 1
       /\ pc # "resolving" =>
            /\ probeCalls = 1
            /\ IF mxRecords = << >> \/ mxRecords[1] \in UnprobedHosts
                 THEN connectCalls = 0 /\ socketHost = NoSocket
                 ELSE connectCalls = 1 /\ socketHost = mxRecords[1]

\* the domain check is off, the resolver answered with records and the probe
\* of the first host found the mailbox
C15_Witness ==
  /\ pc = "done"
  /\ ~options.verifyDomain
  /\ options.verifyMailbox
  /\ mxRecords # << >>
  /\ socketHost = mxRecords[1]
  /\ result = [ wellFormed |-> "VALID", validDomain |-> "UNKNOWN",
                validMailbox |-> "VALID" ]

\* what holds of a verify call at every moment: it has not failed, its result
\* is tri-state, a resolution failure shows as validDomain INVALID at most
VerifyHasNotFailed ==
  /\ pc \in { "start", "resolving", "probing", "resolved", "done" }
  /\ result \in [ wellFormed : ResultValue, validDomain : ResultValue,
                  validMailbox : ResultValue ]
  /\ pc = "resolved" => outcome \in ResultValue
  /\ dnsErr =>
       /\ pc = "done"
       /\ mxRecords = << >>
       /\ connectCalls = 0
       /\ result = [ wellFormed |-> "VALID",
                     validDomain |-> IF options.verifyDomain THEN "INVALID"
                                                             ELSE "UNKNOWN",
                     validMailbox |-> "UNKNOWN" ]

\* C16: verify never fails towards its caller: for every address, options,
\* answer of the resolver (a failure too) and behaviour of the server, no
\* error escapes, the call completes with a tri-state result, and a resolution
\* failure shows only as validDomain INVALID when the domain check is on.
C16_VerifyNeverFails ==
  /\ []VerifyHasNotFailed
  /\ (pc # "start") ~> (pc = "done" /\ VerifyHasNotFailed)

\* the resolution failed with only the domain check on, and verify returned
C16_Witness ==
  /\ pc = "done"
  /\ dnsErr
  /\ options.verifyDomain
  /\ ~options.verifyMailbox
  /\ result = [ wellFormed |-> "VALID", validDomain |-> "INVALID",
                validMailbox |-> "UNKNOWN" ]

(* --------------------------- resolveMxRecords ------------------------- *)

\* the orders of the records in which no record stands behind one of a
\* higher priority number
AscendingArrangements(records) ==
  LET n == Len(records)
      Perms == { f \in [ 1..n -> 1..n ] : \A i, j \in 1..n : i # j => f[i] # f[j] }
  IN  { [ i \in 1..n |-> records[f[i]] ] : f \in
          { g \in Perms : \A i, j \in 1..n :
                            i < j => records[g[i]].priority <= records[g[j]].priority } }

\* C17: resolveMxRecords returns the hosts of the resolver's records in
\* ascending order of priority, for every list of records: of two hosts with
\* different priorities, the one with the lower number comes first.
C17_AscendingPriority ==
  (helperOut.op = "resolveMxRecords" /\ ~helperOut.rejected)
    => helperOut.hosts \in
         { [ i \in 1..Len(s) |-> s[i].exchange ] :
             s \in AscendingArrangements(helperIn.answer.records) }

\* three records with the priorities 30, 10, 20 came back as second, third,
\* first
C17_Witness ==
  /\ helperOut.op = "resolveMxRecords"
  /\ ~helperOut.rejected
  /\ helperIn.answer.records =
       << [ exchange |-> << "m","x" >>, priority |-> 30 ],
          [ exchange |-> << "y","a","h","o","o" >>, priority |-> 10 ],
          [ exchange |-> << "Y","A","H","O","O" >>, priority |-> 20 ] >>
  /\ helperOut.hosts =
       << << "y","a","h","o","o" >>, << "Y","A","H","O","O" >>, << "m","x" >> >>

\* C18 as the specification states it: called as a helper, resolveMxRecords
\* returns an empty sequence on a resolution failure and does not pass the
\* failure on to its caller.
C18_FailureGivesEmptySequence ==
  (helperOut.op = "resolveMxRecords" /\ helperIn.answer.err)
    => ~helperOut.rejected /\ helperOut.hosts = << >>

\* C18: called as a helper, resolveMxRecords passes a resolution failure on to
\* its caller as a rejection; it returns an empty sequence only for an answer
\* without error that holds no records.
C18_FailureIsPassedOn ==
  helperOut.op = "resolveMxRecords"
    => /\ helperOut.rejected <=> helperIn.answer.err
       /\ (~helperIn.answer.err /\ helperIn.answer.records = << >>)
            => helperOut.hosts = << >>

\* the resolver failed and the helper's promise is rejected
C18_Witness ==
  /\ helperOut.op = "resolveMxRecords"
  /\ helperIn.answer.err
  /\ helperOut.rejected

(* ------------------------------ connection ---------------------------- *)

\* C19: a verify call opens at most one connection, to the first host of the
\* resolved list and on port 25; when the probe ends in an error, a timeout, a
\* rejection or an unclear reply, no other host of the list is connected to.
C19_OneConnectionToFirstHost ==
  /\ connectCalls <= 1
  /\ IF connectCalls = 0
       THEN socketHost = NoSocket
       ELSE /\ mxRecords # << >>
            /\ socketHost = mxRecords[1]
            /\ socketPort = 25

\* the probe of the first of two different hosts ended in a socket error and
\* verify returned; the second host would have been probed
C19_Witness ==
  /\ pc = "done"
  /\ Len(mxRecords) = 2
  /\ mxRecords[2] # mxRecords[1]
  /\ mxRecords[2] \notin UnprobedHosts
  /\ resolvedBy = "error"
  /\ connectCalls = 1
  /\ socketHost = mxRecords[1]
  /\ result.validMailbox = "UNKNOWN"

\* the three commands of the probe as they are written
Script == [ i \in 1..3 |-> Messages(local, domain)[i] \o CRLF ]

\* C20: in every reachable state the lines written on the probe's connection
\* are a prefix of HELO, MAIL FROM, RCPT TO, followed or not by one QUIT: no
\* other command, no command twice, no change of order.
C20_WrittenIsScriptPrefix ==
  \E k \in 0..3 :
    \/ written = SubSeq(Script, 1, k)
    \/ written = SubSeq(Script, 1, k) \o << QUIT >>

(* --------------------------- extractAddressParts ---------------------- *)

\* C22: extractAddressParts fails with an error for every address for which
\* isEmail is false, and for every well-formed address it returns exactly two
\* non-empty parts, local and domain, with local, "@", domain making up the
\* address.
C22_PartsOfWellFormedOnly ==
  helperOut.op = "extractAddressParts"
    => IF helperIn.address \in WellFormedAddresses
         THEN /\ ~helperOut.threw
              /\ Len(helperOut.parts) = 2
              /\ helperOut.parts[1] # << >>
              /\ helperOut.parts[2] # << >>
              /\ helperOut.parts[1] \o << "@" >> \o helperOut.parts[2]
                   = helperIn.address
         ELSE helperOut.threw

\* the helper has split a@a.a into a and a.a
C22_Witness ==
  /\ helperOut.op = "extractAddressParts"
  /\ helperIn.address = << "a","@","a",".","a" >>
  /\ ~helperOut.threw
  /\ helperOut.parts = << << "a" >>, << "a",".","a" >> >>

(* ------------------------------ constructor --------------------------- *)

\* C23: a validator built without options has timeout 10000, verifyDomain
\* true and verifyMailbox true; an options object that overrides some of the
\* three changes those and leaves each of the others at its default.
C23_DefaultsAndOverrides ==
  helperOut.op = "constructor"
    => LET passed == helperIn.passed
       IN  /\ options.timeout = IF "timeout" \in passed.has THEN passed.timeout
                                                            ELSE 10000
           /\ options.verifyDomain = IF "verifyDomain" \in passed.has
                                       THEN passed.verifyDomain ELSE TRUE
           /\ options.verifyMailbox = IF "verifyMailbox" \in passed.has
                                        THEN passed.verifyMailbox ELSE TRUE
           /\ DOMAIN options = { "timeout", "verifyDomain", "verifyMailbox" }

\* built with a timeout of 5000 and verifyMailbox false, nothing else
C23_Witness ==
  /\ helperOut.op = "constructor"
  /\ helperIn.passed.has = { "timeout", "verifyMailbox" }
  /\ ~helperIn.passed.verifyMailbox
  /\ options = [ timeout |-> 5000, verifyDomain |-> TRUE, verifyMailbox |-> FALSE ]

(* ------------------------------ tie order ----------------------------- *)

\* the records in ascending order of priority, those of one priority in the
\* order they came in
RECURSIVE StableOrder(_, _)
StableOrder(records, prios) ==
  IF prios = {} THEN << >>
  ELSE LET low == CHOOSE p \in prios : \A q \in prios : p <= q
       IN  SelectSeq(records, LAMBDA r : r.priority = low)
             \o StableOrder(records, prios \ { low })

\* C30: the priority sort of resolveMxRecords is stable: two MX records of
\* equal priority stand in the result in the order in which the resolver
\* returned them.
C30_SortIsStable ==
  (helperOut.op = "resolveMxRecords" /\ ~helperOut.rejected)
    => LET stable == StableOrder(helperIn.answer.records, HelperPriorities)
       IN  helperOut.hosts = [ i \in 1..Len(stable) |-> stable[i].exchange ]

(* ----------------------------- the session --------------------------- *)

\* the commands of the script among the written lines
CommandsWritten == Len(written) - QuitCount

\* C24: writes are sequential, with no pipelining: a command is written only
\* in answer to one received line that is classified as progressable, so the
\* commands written (QUIT left out) never outnumber the progressable lines
\* received, and one received line makes at most one command be written.
C24_NoPipelining ==
  /\ [](CommandsWritten <= progressSeen)
  /\ [][ /\ CommandsWritten' <= CommandsWritten + 1
         /\ CommandsWritten' > CommandsWritten
              => /\ ev'.kind = "data"
                 /\ ev'.line \in ProgressableReplies
                 /\ progressSeen' = progressSeen + 1 ]_vars

\* two acknowledgements and a continuation line have come in, two commands
\* are written
C24_Witness ==
  /\ pc = "probing"
  /\ contSeen
  /\ progressSeen = 2
  /\ CommandsWritten = 2
  /\ Len(messages) = 1

\* C25: every event passes through the resolved guard: once the session has
\* resolved, a data event writes nothing and does not take a command from the
\* queue, so QUIT is the last line written on the connection.
C25_LateDataWritesNothing ==
  [][ \A data \in Replies :
        (retFlag /\ OnData(data)) => written' = written /\ messages' = messages ]_vars

\* C26: a session is torn down the instant it resolves: in every state in
\* which it is resolved its timer is cancelled and its connection is closed or
\* destroyed, on every path of resolution.
C26_ResolvedIsTornDown ==
  retFlag => /\ ~timerActive
             /\ outcome \in ResultValue
             /\ endCalls = 1 \/ destroyed

\* the last acknowledgement resolved the session VALID: the timer is cleared
\* and the socket ended
C26_Witness ==
  /\ pc = "resolved"
  /\ resolvedBy = "data"
  /\ outcome = "VALID"
  /\ ~timerActive
  /\ endCalls = 1
  /\ ~destroyed

\* C27: teardown writes QUIT and closes the connection only when it is still
\* open: when the session resolves on a destroyed connection nothing is
\* written and end is not called, and nothing is written on a destroyed
\* connection afterwards.
C27_TeardownOnlyWhenOpen ==
  [][ /\ destroyed' => written' = written /\ endCalls' = endCalls
      /\ (~retFlag /\ retFlag' /\ ~destroyed')
           => written' = Append(written, QUIT) /\ endCalls' = endCalls + 1 ]_vars

\* an error that destroyed the socket has resolved the session before any
\* line was written
C27_Witness ==
  /\ pc = "resolved"
  /\ resolvedBy = "error"
  /\ destroyed
  /\ written = << >>
  /\ endCalls = 0
  /\ ~timerActive

\* the replies that are no mailbox rejection and hold neither 220 nor 250
UnclearReplies ==
  { line \in Replies \ PlainRejections :
      /\ ~Includes(line, << "2","2","0" >>)
      /\ ~Includes(line, << "2","5","0" >>) }

\* C28: a received line that is no mailbox rejection and holds neither 220
\* nor 250 resolves the session UNKNOWN at every stage of the handshake, and
\* no command of the script is written after it.
C28_UnclearReplyEndsHandshake ==
  [][ /\ \A data \in UnclearReplies :
           (~retFlag /\ OnData(data))
             => outcome' = "UNKNOWN" /\ retFlag' /\ messages' = messages
      /\ (resolvedBy = "data" /\ outcome = "UNKNOWN")
           => CommandsWritten' = CommandsWritten ]_vars

\* C29 as the specification states it: a session resolves INVALID only on a
\* line received after RCPT TO was written, never on the greeting banner or
\* on the reply to HELO or MAIL FROM.
C29_InvalidOnlyAfterRcptTo ==
  (pc = "resolved" /\ outcome = "INVALID") => written = FullScript

\* C29: a session resolves INVALID only on a received mailbox-rejection line,
\* never by an error or the timer, and at whatever stage the line arrives:
\* the greeting banner and the replies to HELO, MAIL FROM and RCPT TO alike.
C29_InvalidOnRejectionAtAnyStage ==
  [][ /\ (outcome = PENDING /\ outcome' = "INVALID")
           => /\ ev'.kind = "data"
              /\ ev'.line \in PlainRejections
              /\ resolvedBy' = "data"
      /\ \A data \in PlainRejections :
           (outcome = PENDING /\ OnData(data))
             => outcome' = "INVALID" /\ CommandsWritten' = CommandsWritten ]_vars

\* the greeting banner was a rejection: INVALID before any command was written
C29_Witness ==
  /\ pc = "resolved"
  /\ outcome = "INVALID"
  /\ resolvedBy = "data"
  /\ written = << QUIT >>
  /\ Len(messages) = 3

(* --------------------------- concurrent calls ------------------------- *)

\* what call j sees of its session: queue, flag, timer, connection, outcome
SessionOf(j) == IF env[j] = 0 THEN << >> ELSE << closures[env[j]] >>

\* an event is delivered to call i
EventAt(i) ==
  \/ \E data \in PairReplies : PairData(i, data)
  \/ \E destroys \in BOOLEAN : PairError(i, destroys)
  \/ PairTimeout(i)

\* C21: concurrent calls are independent: with two probe sessions interleaved,
\* an event (data, error, timeout) delivered to one of them never changes the
\* command queue, the resolved flag, the timer, the connection or the outcome
\* of the other.
C21_SessionsAreIndependent ==
  [][ \A i \in Sessions : \A j \in Sessions \ { i } :
        EventAt(i) => /\ env'[j] = env[j]
                      /\ IF env[j] = 0 THEN TRUE
                         ELSE closures'[env[j]] = closures[env[j]] ]_vars

\* the first session has timed out after HELO while the second is about to
\* write RCPT TO
C21_Witness ==
  /\ env[1] # 0
  /\ env[2] # 0
  /\ env[1] # env[2]
  /\ closures[env[1]].retFlag
  /\ closures[env[1]].outcome = "UNKNOWN"
  /\ Len(closures[env[1]].messages) = 2
  /\ ~closures[env[2]].retFlag
  /\ Len(closures[env[2]].messages) = 1
  /\ closures[env[2]].timerActive

(* ------------------------------ the result ---------------------------- *)

Conclusive == { "VALID", "INVALID" }

\* C31: every result of verify is coherent: validMailbox is VALID or INVALID
\* only if wellFormed is VALID, verifyMailbox is on, the resolved host list
\* is not empty and a connection was opened; so no result has validDomain
\* INVALID with a conclusive validMailbox, and validDomain is VALID or INVALID
\* only if wellFormed is VALID.
C31_ResultIsCoherent ==
  /\ result.validMailbox \in Conclusive
       => /\ pc = "done"
          /\ result.wellFormed = "VALID"
          /\ address \in WellFormedAddresses
          /\ options.verifyMailbox
          /\ mxRecords # << >>
          /\ connectCalls = 1
          /\ result.validDomain # "INVALID"
  /\ result.validDomain \in Conclusive
       => /\ result.wellFormed = "VALID"
          /\ address \in WellFormedAddresses

\* verify has returned: the domain has MX records and the server rejected the
\* mailbox
C31_Witness ==
  /\ pc = "done"
  /\ result = [ wellFormed |-> "VALID", validDomain |-> "VALID",
                validMailbox |-> "INVALID" ]
  /\ options = defaultOptions
  /\ mxRecords # << >>
  /\ connectCalls = 1

====
